---- MODULE Spec2Model ----
(***************************************************************************)
(* Model of the anomaly detection engine of the solar monitoring back end: *)
(* the daily aggregator, the six detectors, the job runner with its        *)
(* find-then-create persistence, the resolution endpoints and the          *)
(* scheduler / manual trigger.                                             *)
(*                                                                         *)
(* Calendar days are integers, instants are clock ticks (TicksPerDay to a  *)
(* day).  Energy values are naturals.  The threshold comparisons of the    *)
(* detectors are done in exact rational arithmetic by cross-multiplication *)
(* where the doubles of the code decide the same, and on emulated IEEE 754 *)
(* doubles for the degradation test.  Mongo documents are records; the     *)
(* Anomaly collection is a sequence whose index is the document's _id.     *)
(***************************************************************************)
EXTENDS Integers, Sequences, FiniteSets, TLC

\* ----------------------------------------------------------------- bounds
TicksPerDay == 1
MaxRuns == 2
MaxFaults == 1
MaxEnv == 1
MaxOps == 1
MaxRequests == 2

\* ------------------------------------------------------ program constants
WindowDays == 14
DropThresholdPercent == 50
DegradationThresholdPercent == 15
BelowThresholdPercent == 20

\* ------------------------------------------------------------ environment
Today0 == 20
NoTime == 0 - 1
NoUser == "none"
Undefined == "undefined"
Absent == <<0, 0>>

SolarUnitIds == {"u1", "u2"}
UnitOrder == <<"u1", "u2">>
UnitStatuses == {"ACTIVE", "INACTIVE", "MAINTENANCE"}
Deleted == "DELETED"
Capacity == [u \in SolarUnitIds |-> 100]

Users == {"admin1", "staff1", "staff2"}
Role == [x \in Users |-> IF x = "admin1" THEN "admin" ELSE "staff"]
UnitUserId == [u \in SolarUnitIds |-> IF u = "u1" THEN "staff1" ELSE "admin1"]

ANOMALY_TYPES ==
  {"ZERO_PRODUCTION", "SIGNIFICANT_DROP", "GRADUAL_DEGRADATION",
   "SENSOR_SPIKE", "INTERMITTENT_FAILURE", "BELOW_THRESHOLD"}
SEVERITY_LEVELS == {"CRITICAL", "WARNING", "INFO"}
RESOLUTION_STATUS == {"OPEN", "ACKNOWLEDGED", "RESOLVED", "FALSE_POSITIVE"}

\* --------------------------------------------------------------- numbers
Abs(x) == IF x < 0 THEN 0 - x ELSE x

RECURSIVE GCD(_, _)
GCD(a, b) == IF b = 0 THEN a ELSE GCD(b, a % b)

\* A rational n/d (d > 0) in lowest terms, as a pair.
Rat(n, d) ==
  LET g == GCD(Abs(n), d) IN
  IF g = 0 THEN <<0, 1>>
  ELSE IF n < 0 THEN <<0 - (Abs(n) \div g), d \div g>> ELSE <<n \div g, d \div g>>

RECURSIVE SumSeq(_)
SumSeq(s) == IF s = <<>> THEN 0 ELSE Head(s) + SumSeq(Tail(s))

RECURSIVE SetToSortedSeq(_)
SetToSortedSeq(S) ==
  IF S = {} THEN <<>>
  ELSE LET m == CHOOSE x \in S : \A y \in S : x <= y
       IN <<m>> \o SetToSortedSeq(S \ {m})

\* ------------------------------------------------- IEEE 754 double values
\* The one comparison of the detectors whose outcome depends on the rounding
\* of doubles is declinePercent > degradationThresholdPercent; it is computed
\* here as the code computes it, every operation rounded to 53 bits, ties to
\* even.  A natural number is a little-endian sequence of limbs in base 2^15;
\* a positive double is <<m, e>>, worth m * 2^e with 2^52 <= m < 2^53.
LimbBits == 15
MantissaBits == 53
LimbBase == 32768

RECURSIVE Pow2(_)
Pow2(k) == IF k = 0 THEN 1 ELSE 2 * Pow2(k - 1)

RECURSIVE BitLength(_)
BitLength(k) == IF k = 0 THEN 0 ELSE 1 + BitLength(k \div 2)

RECURSIVE BigNorm(_)
BigNorm(a) ==
  IF a = <<>> THEN <<>>
  ELSE IF a[Len(a)] = 0 THEN BigNorm(SubSeq(a, 1, Len(a) - 1)) ELSE a

RECURSIVE BigFromInt(_)
BigFromInt(k) ==
  IF k = 0 THEN <<>> ELSE <<k % LimbBase>> \o BigFromInt(k \div LimbBase)

\* a * k + carry, for 0 <= k <= LimbBase
RECURSIVE BigMulSmall(_, _, _)
BigMulSmall(a, k, carry) ==
  IF a = <<>> THEN BigFromInt(carry)
  ELSE LET v == Head(a) * k + carry
       IN <<v % LimbBase>> \o BigMulSmall(Tail(a), k, v \div LimbBase)

RECURSIVE BigCmpFrom(_, _, _)
BigCmpFrom(a, b, i) ==
  IF i = 0 THEN 0
  ELSE IF a[i] > b[i] THEN 1
  ELSE IF a[i] < b[i] THEN 0 - 1
  ELSE BigCmpFrom(a, b, i - 1)

\* -1, 0 or 1 as a < b, a = b or a > b
BigCmp(a, b) ==
  IF Len(a) > Len(b) THEN 1
  ELSE IF Len(a) < Len(b) THEN 0 - 1
  ELSE BigCmpFrom(a, b, Len(a))

RECURSIVE BigSubLimbs(_, _, _)
BigSubLimbs(a, b, borrow) ==
  IF a = <<>> THEN <<>>
  ELSE LET v == Head(a) - (IF b = <<>> THEN 0 ELSE Head(b)) - borrow
           rest == IF b = <<>> THEN <<>> ELSE Tail(b)
       IN IF v < 0 THEN <<v + LimbBase>> \o BigSubLimbs(Tail(a), rest, 1)
          ELSE <<v>> \o BigSubLimbs(Tail(a), rest, 0)

\* a - b, for a >= b
BigSub(a, b) == BigNorm(BigSubLimbs(a, b, 0))

BigBitLength(a) ==
  IF a = <<>> THEN 0 ELSE LimbBits * (Len(a) - 1) + BitLength(a[Len(a)])

RECURSIVE BigShl(_, _)
BigShl(a, k) ==
  IF a = <<>> \/ k = 0 THEN a
  ELSE IF k >= LimbBits THEN <<0>> \o BigShl(a, k - LimbBits)
  ELSE BigNorm(BigMulSmall(a, Pow2(k), 0))

\* `bits` more quotient bits of a long division by q, from the remainder r and
\* the quotient m so far: <<quotient, remainder>>.  (The singleton sets bind
\* each intermediate result to a value before the next step uses it.)
RECURSIVE BigDivBits(_, _, _, _)
BigDivBits(r, q, m, bits) ==
  IF bits = 0 THEN <<m, r>>
  ELSE LET r2 == BigShl(r, 1)
           step == IF BigCmp(r2, q) >= 0
                   THEN <<BigMulSmall(m, 2, 1), BigSub(r2, q)>>
                   ELSE <<BigMulSmall(m, 2, 0), r2>>
       IN CHOOSE out \in {BigDivBits(s[2], qv, s[1], bits - 1) : s \in {step}, qv \in {q}} : TRUE

\* Round the quotient m (MantissaBits bits, remainder r of the division by q)
\* to nearest, ties to even: the double <<m', e'>>.
RoundOff(m, r, q, e) ==
  LET half == BigCmp(BigShl(r, 1), q)
      up == half > 0 \/ (half = 0 /\ m[1] % 2 = 1)
      m1 == IF up THEN BigMulSmall(m, 1, 1) ELSE m
  IN IF BigBitLength(m1) > MantissaBits
     THEN <<BigShl(<<1>>, MantissaBits - 1), e + 1>>
     ELSE <<m1, e>>

\* p and q brought to q <= p < 2q, then divided and rounded.
RoundAligned(p, q, e) ==
  CHOOSE out \in {RoundOff(s[1], s[2], q, e) :
                    s \in {BigDivBits(BigSub(p, q), q, <<1>>, MantissaBits - 1)}} : TRUE

RoundScaled(p, q, e0) ==
  LET d == BigBitLength(p) - BigBitLength(q)
      p1 == IF d < 0 THEN BigShl(p, 0 - d) ELSE p
      q1 == IF d > 0 THEN BigShl(q, d) ELSE q
      low == BigCmp(p1, q1) < 0
      p2 == IF low THEN BigShl(p1, 1) ELSE p1
      x == IF low THEN d - 1 ELSE d
  IN CHOOSE out \in {RoundAligned(pv, qv, e0 + x - (MantissaBits - 1)) :
                       pv \in {p2}, qv \in {q1}} : TRUE

\* The double nearest to p / q * 2^e0 (p, q > 0), ties to even.
RoundDiv(p, q, e0) ==
  CHOOSE out \in {RoundScaled(pv, qv, ev) : pv \in {p}, qv \in {q}, ev \in {e0}} : TRUE

\* p / q for naturals p, q > 0
DoubleOfRatio(p, q) == RoundDiv(BigFromInt(p), BigFromInt(q), 0)

\* a / b
DoubleDiv(a, b) ==
  CHOOSE out \in {RoundDiv(av[1], bv[1], av[2] - bv[2]) : av \in {a}, bv \in {b}} : TRUE

\* a * k for a natural 0 < k <= LimbBase
DoubleTimes(a, k) ==
  CHOOSE out \in {RoundDiv(BigMulSmall(av[1], k, 0), <<1>>, av[2]) : av \in {a}} : TRUE

\* a > k for a natural k
DoubleGreater(a, k) ==
  \E av \in {a} :
    IF av[2] >= 0
    THEN BigCmp(BigShl(av[1], av[2]), BigFromInt(k)) > 0
    ELSE BigCmp(av[1], BigShl(BigFromInt(k), 0 - av[2])) > 0

Energies(records) == [i \in 1..Len(records) |-> records[i].totalEnergy]

\* --------------------------------------------------------------- clock
DayOf(t) == Today0 + (t \div TicksPerDay)

\* ------------------------------------------------------ daily aggregator
\* getDailyRecords: $match timestamp >= start of (today - days), $group by
\* calendar day with $sum of energyGenerated, $sort ascending.
getDailyRecords(rs, days, today) ==
  LET startDate == today - days
      matched == {i \in 1..Len(rs) : rs[i].day >= startDate}
      groupDays == SetToSortedSeq({rs[i].day : i \in matched})
      total(d) == SumSeq(SelectSeq([i \in 1..Len(rs) |->
                                     IF i \in matched /\ rs[i].day = d
                                     THEN rs[i].energyGenerated ELSE 0],
                                   LAMBDA e : TRUE))
  IN [i \in 1..Len(groupDays) |->
        [date |-> groupDays[i], totalEnergy |-> total(groupDays[i])]]

\* ------------------------------------------------------------- detectors
Finding_AlwaysCritical(u, type, sev, startDate, endDate, details, loss) ==
  [solarUnitId |-> u, anomalyType |-> type, severity |-> "CRITICAL",
   affectedPeriod |-> [startDate |-> startDate, endDate |-> endDate],
   detectionDetails |-> details, estimatedEnergyLoss |-> loss]

Finding_WithoutLoss(u, type, sev, startDate, endDate, details, loss) ==
  [solarUnitId |-> u, anomalyType |-> type, severity |-> sev,
   affectedPeriod |-> [startDate |-> startDate, endDate |-> endDate],
   detectionDetails |-> details, estimatedEnergyLoss |-> Absent]

Finding_PeriodReversed(u, type, sev, startDate, endDate, details, loss) ==
  [solarUnitId |-> u, anomalyType |-> type, severity |-> sev,
   affectedPeriod |-> [startDate |-> endDate, endDate |-> startDate],
   detectionDetails |-> details, estimatedEnergyLoss |-> loss]

Finding(u, type, sev, startDate, endDate, details, loss) ==
  [solarUnitId |-> u, anomalyType |-> type, severity |-> sev,
   affectedPeriod |-> [startDate |-> startDate, endDate |-> endDate],
   detectionDetails |-> details, estimatedEnergyLoss |-> loss]

Details(method, expected, actual, deviation, threshold) ==
  [method |-> method, expectedValue |-> expected, actualValue |-> actual,
   deviationPercent |-> deviation, threshold |-> threshold]

\* The same detector with a day at the threshold left out.
detectZeroProduction_BelowOnly(records, u, capacity) ==
  LET flagged == SelectSeq(records, LAMBDA r : r.totalEnergy * 100 < capacity)
  IN [i \in 1..Len(flagged) |->
        LET r == flagged[i]
        IN Finding(u, "ZERO_PRODUCTION", "CRITICAL", r.date, r.date,
             Details("absolute_threshold", Rat(capacity, 2),
                     Rat(r.totalEnergy, 1), Rat(100, 1), Rat(capacity, 100)),
             Rat(capacity - 2 * r.totalEnergy, 2))]

\* record.totalEnergy <= capacity * 0.01
detectZeroProduction(records, u, capacity) ==
  LET flagged == SelectSeq(records, LAMBDA r : r.totalEnergy * 100 <= capacity)
  IN [i \in 1..Len(flagged) |->
        LET r == flagged[i]
        IN Finding(u, "ZERO_PRODUCTION", "CRITICAL", r.date, r.date,
             Details("absolute_threshold", Rat(capacity, 2),
                     Rat(r.totalEnergy, 1), Rat(100, 1), Rat(capacity, 100)),
             Rat(capacity - 2 * r.totalEnergy, 2))]

\* The same comparison made on windows of any length.
detectSignificantDrop_AnyLength(records, u, dropThresholdPercent) ==
  LET n == Len(records)
      sum == SumSeq(Energies(records))
      flagged ==
        SelectSeq(records,
          LAMBDA r : /\ r.totalEnergy # 0
                     /\ sum > 0
                     /\ (sum - n * r.totalEnergy) * 100 > dropThresholdPercent * sum)
  IN [i \in 1..Len(flagged) |->
        LET r == flagged[i]
        IN Finding(u, "SIGNIFICANT_DROP", "WARNING", r.date, r.date,
             Details("window_average_comparison", Rat(sum, n),
                     Rat(r.totalEnergy, 1),
                     Rat((sum - n * r.totalEnergy) * 100, sum),
                     Rat(dropThresholdPercent, 1)),
             Rat(sum - n * r.totalEnergy, n))]

\* The same comparison with a day at the threshold flagged too.
detectSignificantDrop_AtThreshold(records, u, dropThresholdPercent) ==
  LET n == Len(records)
      sum == SumSeq(Energies(records))
      flagged ==
        SelectSeq(records,
          LAMBDA r : /\ r.totalEnergy # 0
                     /\ sum > 0
                     /\ (sum - n * r.totalEnergy) * 100 >= dropThresholdPercent * sum)
  IN IF n < 3 THEN <<>>
     ELSE [i \in 1..Len(flagged) |->
             LET r == flagged[i]
             IN Finding(u, "SIGNIFICANT_DROP", "WARNING", r.date, r.date,
                  Details("window_average_comparison", Rat(sum, n),
                          Rat(r.totalEnergy, 1),
                          Rat((sum - n * r.totalEnergy) * 100, sum),
                          Rat(dropThresholdPercent, 1)),
                  Rat(sum - n * r.totalEnergy, n))]

\* deviationPercent = (average - total) / average * 100 > dropThresholdPercent,
\* with average = sum / n; zero days are skipped.
detectSignificantDrop(records, u, dropThresholdPercent) ==
  LET n == Len(records)
      sum == SumSeq(Energies(records))
      flagged ==
        SelectSeq(records,
          LAMBDA r : /\ r.totalEnergy # 0
                     /\ sum > 0
                     /\ (sum - n * r.totalEnergy) * 100 > dropThresholdPercent * sum)
  IN IF n < 3 THEN <<>>
     ELSE [i \in 1..Len(flagged) |->
             LET r == flagged[i]
             IN Finding(u, "SIGNIFICANT_DROP", "WARNING", r.date, r.date,
                  Details("window_average_comparison", Rat(sum, n),
                          Rat(r.totalEnergy, 1),
                          Rat((sum - n * r.totalEnergy) * 100, sum),
                          Rat(dropThresholdPercent, 1)),
                  Rat(sum - n * r.totalEnergy, n))]

\* The same regression without the test of the slope's sign.
detectGradualDegradation_AnySlope(records, u, degradationThresholdPercent) ==
  LET n == Len(records)
      y == Energies(records)
      sumX == SumSeq([i \in 1..n |-> i - 1])
      sumY == SumSeq(y)
      sumXY == SumSeq([i \in 1..n |-> (i - 1) * y[i]])
      sumX2 == SumSeq([i \in 1..n |-> (i - 1) * (i - 1)])
      slopeNum == n * sumXY - sumX * sumY
      slopeDen == n * sumX2 - sumX * sumX
  IN IF n < 7 \/ slopeNum = 0 THEN <<>>
     ELSE IF Abs(slopeNum) * (n - 1) * n * 100 > degradationThresholdPercent * slopeDen * sumY
     THEN <<Finding(u, "GRADUAL_DEGRADATION", "WARNING",
                    records[1].date, records[n].date,
                    Details("linear_regression", Rat(y[1], 1), Rat(y[n], 1),
                            Rat(Abs(slopeNum) * (n - 1) * n * 100, slopeDen * sumY),
                            Rat(degradationThresholdPercent, 1)),
                    Rat(Abs(slopeNum) * (n - 1) * n, 2 * slopeDen))>>
     ELSE <<>>

\* Least squares over x = 0..n-1: slope = slopeNum / slopeDen;
\* declinePercent = |slope * (n-1)| / (sumY / n) * 100, each operation rounded
\* as a double; the sums and products of the regression are integers and
\* exact.  The values reported in the details are kept as the exact quotients
\* the doubles round.
detectGradualDegradation(records, u, degradationThresholdPercent) ==
  LET n == Len(records)
      y == Energies(records)
      sumX == SumSeq([i \in 1..n |-> i - 1])
      sumY == SumSeq(y)
      sumXY == SumSeq([i \in 1..n |-> (i - 1) * y[i]])
      sumX2 == SumSeq([i \in 1..n |-> (i - 1) * (i - 1)])
      slopeNum == n * sumXY - sumX * sumY
      slopeDen == n * sumX2 - sumX * sumX
      absSlope == DoubleOfRatio(Abs(slopeNum), slopeDen)
      averageEnergy == DoubleOfRatio(sumY, n)
      absTotalDecline == DoubleTimes(absSlope, n - 1)
      declinePercent == DoubleTimes(DoubleDiv(absTotalDecline, averageEnergy), 100)
      declineNum == Abs(slopeNum) * (n - 1) * n * 100
      declineDen == slopeDen * sumY
  IN IF n < 7 THEN <<>>
     ELSE IF slopeNum < 0 /\ DoubleGreater(declinePercent, degradationThresholdPercent)
     THEN <<Finding(u, "GRADUAL_DEGRADATION", "WARNING",
                    records[1].date, records[n].date,
                    Details("linear_regression", Rat(y[1], 1), Rat(y[n], 1),
                            Rat(declineNum, declineDen),
                            Rat(degradationThresholdPercent, 1)),
                    Rat(Abs(slopeNum) * (n - 1) * n, 2 * slopeDen))>>
     ELSE <<>>

\* The same detector with a day at the threshold flagged too.
detectSensorSpike_AtThreshold(records, u, capacity) ==
  LET flagged == SelectSeq(records, LAMBDA r : r.totalEnergy >= capacity * 12)
  IN [i \in 1..Len(flagged) |->
        LET r == flagged[i]
        IN Finding(u, "SENSOR_SPIKE", "INFO", r.date, r.date,
             Details("capacity_threshold", Rat(capacity * 8, 1),
                     Rat(r.totalEnergy, 1),
                     Rat((r.totalEnergy - capacity * 8) * 100, capacity * 8),
                     Rat(capacity * 12, 1)),
             Absent)]

\* record.totalEnergy > capacity * 8 * 1.5
detectSensorSpike(records, u, capacity) ==
  LET flagged == SelectSeq(records, LAMBDA r : r.totalEnergy > capacity * 12)
  IN [i \in 1..Len(flagged) |->
        LET r == flagged[i]
        IN Finding(u, "SENSOR_SPIKE", "INFO", r.date, r.date,
             Details("capacity_threshold", Rat(capacity * 8, 1),
                     Rat(r.totalEnergy, 1),
                     Rat((r.totalEnergy - capacity * 8) * 100, capacity * 8),
                     Rat(capacity * 12, 1)),
             Absent)]

\* failure day: totalEnergy <= capacity * 0.05; pattern: two successive
\* failure days more than one day apart.
detectIntermittentFailure(records, u, capacity) ==
  LET n == Len(records)
      failureDays == SelectSeq(records, LAMBDA r : r.totalEnergy * 20 <= capacity)
      recoveryDays == SelectSeq(records, LAMBDA r : ~(r.totalEnergy * 20 <= capacity))
      hasIntermittentPattern ==
        \E i \in 2..Len(failureDays) :
          failureDays[i].date - failureDays[i - 1].date > 1
  IN IF n < 5 THEN <<>>
     ELSE IF Len(failureDays) >= 2 /\ Len(recoveryDays) >= 2 /\ hasIntermittentPattern
     THEN <<Finding(u, "INTERMITTENT_FAILURE", "WARNING",
                    records[1].date, records[n].date,
                    Details("pattern_analysis", Absent, Absent, Absent,
                            Rat(capacity, 20)),
                    Rat(Len(failureDays) * capacity, 2))>>
     ELSE <<>>

detectBelowThreshold_NonZeroDays(records, u, capacity, thresholdPercent) ==
  LET n == Len(records)
      nonZeroDays == SelectSeq(records, LAMBDA r : r.totalEnergy > 0)
      belowThresholdDays ==
        SelectSeq(records, LAMBDA r : /\ r.totalEnergy > 0
                                      /\ r.totalEnergy * 100 < capacity * 4 * thresholdPercent)
  IN IF n >= 3 /\ Len(nonZeroDays) > 0 /\ 2 * Len(belowThresholdDays) >= Len(nonZeroDays)
     THEN <<Finding(u, "BELOW_THRESHOLD", "INFO", records[1].date, records[n].date,
                    Details("capacity_percentage_threshold", Rat(capacity * 4, 1),
                            Absent, Absent, Rat(capacity * 4 * thresholdPercent, 100)),
                    Absent)>>
     ELSE <<>>

\* below: 0 < totalEnergy < capacity * 4 * (thresholdPercent / 100);
\* fires when the below days are at least ceil(n * 0.5).
detectBelowThreshold(records, u, capacity, thresholdPercent) ==
  LET n == Len(records)
      belowThresholdDays ==
        SelectSeq(records, LAMBDA r : /\ r.totalEnergy > 0
                                      /\ r.totalEnergy * 100 < capacity * 4 * thresholdPercent)
  IN IF n < 3 THEN <<>>
     ELSE IF Len(belowThresholdDays) >= (n + 1) \div 2
     THEN <<Finding(u, "BELOW_THRESHOLD", "INFO",
                    records[1].date, records[n].date,
                    Details("capacity_percentage_threshold", Rat(capacity * 4, 1),
                            Absent, Absent,
                            Rat(capacity * 4 * thresholdPercent, 100)),
                    Absent)>>
     ELSE <<>>

\* detectAnomaliesForSolarUnit after the unit was found: aggregate the
\* window, then the six detectors in order.
DetectAll(rs, u, capacity, windowDays, today) ==
  LET records == getDailyRecords(rs, windowDays, today)
  IN IF Len(records) = 0 THEN <<>>
     ELSE detectZeroProduction(records, u, capacity)
          \o detectSignificantDrop(records, u, DropThresholdPercent)
          \o detectGradualDegradation(records, u, DegradationThresholdPercent)
          \o detectSensorSpike(records, u, capacity)
          \o detectIntermittentFailure(records, u, capacity)
          \o detectBelowThreshold(records, u, capacity, BelowThresholdPercent)


\* ----------------------------------------------------------------- state
VARIABLES
  solarUnits,   \* SolarUnit collection: unit id -> status, or Deleted
  readings,     \* EnergyGenerationRecord collection: unit id -> sequence of readings
  anomalies,    \* Anomaly collection: sequence of documents, _id = index
  now,          \* the clock, in ticks
  job,          \* the invocations of runAnomalyDetectionJob: slot -> frame
  outcome,      \* what the caller of each slot last did with the run's result
  response,     \* the last HTTP response of a resolution endpoint
  succ,         \* history: the run in this slot directly succeeds lastRun, nothing changed in between
  quiet,        \* history: nothing but the run in this slot has changed a collection since it started
  lastRun,      \* history: the last finished run, when it ran quietly
  runs,         \* runs started so far
  faults,       \* storage errors injected so far
  ops,          \* resolution requests served so far
  envs,         \* reading / solar unit changes made so far
  window,       \* the daily records handed to a detector called on its own
  detected,     \* the findings that detector returned
  called,       \* the detector called last, "none" before any call
  aggDays       \* the window length handed to getDailyRecords

vars == <<solarUnits, readings, anomalies, now, job, outcome, response,
          succ, quiet, lastRun, runs, faults, ops, envs, window, detected, called,
          aggDays>>

detectorVars == <<window, detected, called, aggDays>>

\* "cron": the node-cron callback; "manual": triggerAnomalyDetection.
Slots == {"cron", "manual"}

Reading(d, e) == [day |-> d, energyGenerated |-> e]

\* The reading sets a unit may start with (days relative to the first window,
\* which starts at Today0 - WindowDays).
W0 == Today0 - WindowDays
\* u1: four days, one of them without production and one made of two
\* readings; u2: one day of two empty readings.
InitialReadings ==
  [u \in SolarUnitIds |->
     IF u = "u1"
     THEN <<Reading(W0, 5), Reading(W0 + 1, 0), Reading(W0 + 2, 2),
            Reading(W0 + 2, 3), Reading(W0 + 3, 5)>>
     ELSE <<Reading(W0 + 4, 0), Reading(W0 + 4, 0)>>]

IdleJob ==
  [pc |-> "idle", units |-> <<>>, i |-> 0, findings |-> <<>>, k |-> 0,
   found |-> 0, saved |-> 0, errs |-> {}, day0 |-> NoTime]

NoRun == [valid |-> FALSE, clean |-> FALSE, day |-> NoTime, store |-> <<>>]

NoResponse == [op |-> "none", anomalyId |-> 0, code |-> 0, error |-> "none"]

\* The collections and the bookkeeping at start-up, over the readings rs.
InitWith(rs) ==
  /\ solarUnits \in {us \in [SolarUnitIds -> UnitStatuses] :
                       us["u1"] = "ACTIVE" /\ us["u2"] # "MAINTENANCE"}
  /\ readings = rs
  /\ anomalies = <<>>
  /\ now = 0
  /\ job = [j \in Slots |-> IdleJob]
  /\ outcome = [j \in Slots |-> "none"]
  /\ response = NoResponse
  /\ succ = [j \in Slots |-> FALSE]
  /\ quiet = [j \in Slots |-> FALSE]
  /\ lastRun = NoRun
  /\ runs = 0
  /\ faults = 0
  /\ ops = 0
  /\ envs = 0

InitSystem == InitWith(InitialReadings)

Init ==
  /\ InitSystem
  /\ window = <<>>
  /\ detected = <<>>
  /\ called = "none"
  /\ aggDays = WindowDays

\* ------------------------------------------------------------ job runner
Key(a) ==
  <<a.solarUnitId, a.anomalyType, a.affectedPeriod.startDate, a.affectedPeriod.endDate>>

\* The same lookup by solar unit alone.
ExistingAnomaly_SameUnit(store, finding) ==
  \E n \in 1..Len(store) : store[n].solarUnitId = finding.solarUnitId

ExistingAnomaly_OpenOnly(store, finding) ==
  \E n \in 1..Len(store) : Key(store[n]) = Key(finding) /\ store[n].status = "OPEN"

\* Anomaly.findOne({solarUnitId, anomalyType, startDate, endDate}) !== null
ExistingAnomaly(store, finding) ==
  \E n \in 1..Len(store) : Key(store[n]) = Key(finding)

ShouldCreate_Always(store, finding) == TRUE

\* if (!existingAnomaly)
ShouldCreate(store, finding) == ~ExistingAnomaly(store, finding)

\* Anomaly.create({...anomaly, status: OPEN}) with the schema defaults.
NewDocument(finding, status, t) ==
  [solarUnitId |-> finding.solarUnitId,
   anomalyType |-> finding.anomalyType,
   severity |-> finding.severity,
   affectedPeriod |-> finding.affectedPeriod,
   detectionDetails |-> finding.detectionDetails,
   estimatedEnergyLoss |-> finding.estimatedEnergyLoss,
   status |-> status,
   detectedAt |-> t,
   acknowledgedAt |-> NoTime, acknowledgedBy |-> NoUser,
   resolvedAt |-> NoTime, resolvedBy |-> NoUser,
   resolutionNotes |-> Undefined]

NewAnomaly_Acknowledged(finding, t) == NewDocument(finding, "ACKNOWLEDGED", t)

\* status: RESOLUTION_STATUS.OPEN; detectedAt: default Date.now
NewAnomaly(finding, t) == NewDocument(finding, "OPEN", t)

\* SolarUnit.find({status: 'ACTIVE'})
ActiveSolarUnits(us) == SelectSeq(UnitOrder, LAMBDA u : us[u] = "ACTIVE")

\* The frame after the inner loop moved past finding k: the next finding's
\* findOne, or the next solar unit.
AfterFinding(f) ==
  IF f.k < Len(f.findings)
  THEN [f EXCEPT !.pc = "find", !.k = f.k + 1]
  ELSE [f EXCEPT !.pc = "detect", !.i = f.i + 1, !.findings = <<>>, !.k = 0]

\* The same catch with the failed solar unit taken off the list.
CatchUnitError_Uncounted(f) ==
  [f EXCEPT !.pc = "detect", !.findings = <<>>, !.k = 0,
            !.units = SubSeq(f.units, 1, f.i - 1) \o SubSeq(f.units, f.i + 1, Len(f.units)),
            !.errs = f.errs \cup {f.i}]

CatchUnitError_Abort(f) == [f EXCEPT !.pc = "threw"]

\* catch (error) { console.error(...) }: on to the next solar unit.
CatchUnitError(f) ==
  [f EXCEPT !.pc = "detect", !.i = f.i + 1, !.findings = <<>>, !.k = 0,
            !.errs = f.errs \cup {f.i}]

OthersIdle(j) == \A o \in Slots \ {j} : job[o].pc = "idle"

\* Any change to the collections not made by the run in slot j ends the
\* "in succession, nothing changed" history of every slot.
Disturb ==
  /\ succ' = [j \in Slots |-> FALSE]
  /\ quiet' = [j \in Slots |-> FALSE]
  /\ lastRun' = NoRun

StartJob(j) ==
  /\ job[j].pc = "idle"
  /\ runs < MaxRuns
  /\ runs' = runs + 1
  /\ job' = [job EXCEPT ![j] = [IdleJob EXCEPT !.pc = "list", !.day0 = DayOf(now)]]
  /\ succ' = [o \in Slots |-> o = j /\ lastRun.valid /\ OthersIdle(j)]
  /\ quiet' = [o \in Slots |-> o = j /\ OthersIdle(j)]
  /\ lastRun' = IF OthersIdle(j) THEN lastRun ELSE NoRun
  /\ UNCHANGED detectorVars
  /\ UNCHANGED <<solarUnits, readings, anomalies, now, outcome, response,
                 faults, ops, envs>>

ListUnits(j) ==
  /\ job[j].pc = "list"
  /\ job' = [job EXCEPT ![j] = [@ EXCEPT !.pc = "detect",
                                         !.units = ActiveSolarUnits(solarUnits),
                                         !.i = 1]]
  /\ UNCHANGED detectorVars
  /\ UNCHANGED <<solarUnits, readings, anomalies, now, outcome, response,
                 succ, quiet, lastRun, runs, faults, ops, envs>>

\* SolarUnit.find rejects: nothing catches it inside runAnomalyDetectionJob.
ListUnitsFails(j) ==
  /\ job[j].pc = "list"
  /\ faults < MaxFaults
  /\ faults' = faults + 1
  /\ job' = [job EXCEPT ![j] = [@ EXCEPT !.pc = "threw"]]
  /\ UNCHANGED detectorVars
  /\ UNCHANGED <<solarUnits, readings, anomalies, now, outcome, response,
                 succ, quiet, lastRun, runs, ops, envs>>

\* detectAnomaliesForSolarUnit(solarUnit._id): findById, aggregate, detectors.
DetectUnit(j) ==
  LET f == job[j]
      u == f.units[f.i]
  IN /\ f.pc = "detect"
     /\ f.i <= Len(f.units)
     /\ IF solarUnits[u] = Deleted
        THEN job' = [job EXCEPT ![j] = CatchUnitError(f)]
        ELSE \E found \in {DetectAll(readings[u], u, Capacity[u], WindowDays, DayOf(now))} :
               job' = [job EXCEPT ![j] =
                         AfterFinding([f EXCEPT !.findings = found, !.k = 0,
                                                !.found = f.found + Len(found)])]
     /\ UNCHANGED detectorVars
     /\ UNCHANGED <<solarUnits, readings, anomalies, now, outcome, response,
                    succ, quiet, lastRun, runs, faults, ops, envs>>

\* A storage error in findById / aggregate, findOne or create: the try block
\* of the solar unit being processed is left.
UnitFails(j) ==
  LET f == job[j]
  IN /\ \/ f.pc = "detect" /\ f.i <= Len(f.units)
        \/ f.pc \in {"find", "create"}
     /\ faults < MaxFaults
     /\ faults' = faults + 1
     /\ job' = [job EXCEPT ![j] = CatchUnitError(f)]
     /\ UNCHANGED detectorVars
     /\ UNCHANGED <<solarUnits, readings, anomalies, now, outcome, response,
                    succ, quiet, lastRun, runs, ops, envs>>

FindExisting(j) ==
  LET f == job[j]
  IN /\ f.pc = "find"
     /\ job' = [job EXCEPT ![j] =
          IF ShouldCreate(anomalies, f.findings[f.k])
          THEN [f EXCEPT !.pc = "create"]
          ELSE AfterFinding(f)]
     /\ UNCHANGED detectorVars
     /\ UNCHANGED <<solarUnits, readings, anomalies, now, outcome, response,
                    succ, quiet, lastRun, runs, faults, ops, envs>>

CreateAnomaly(j) ==
  LET f == job[j]
  IN /\ f.pc = "create"
     /\ anomalies' = Append(anomalies, NewAnomaly(f.findings[f.k], now))
     /\ job' = [job EXCEPT ![j] = AfterFinding([f EXCEPT !.saved = f.saved + 1])]
     /\ UNCHANGED detectorVars
     /\ UNCHANGED <<solarUnits, readings, now, outcome, response,
                    succ, quiet, lastRun, runs, faults, ops, envs>>

\* The for loop over the solar units is exhausted: the summary is built.
Finish(j) ==
  /\ job[j].pc = "detect"
  /\ job[j].i > Len(job[j].units)
  /\ job' = [job EXCEPT ![j] = [@ EXCEPT !.pc = "return"]]
  /\ UNCHANGED detectorVars
  /\ UNCHANGED <<solarUnits, readings, anomalies, now, outcome, response,
                 succ, quiet, lastRun, runs, faults, ops, envs>>

\* return { processed, anomaliesFound, newAnomalies }
Summary(f) ==
  [processed |-> Len(f.units), anomaliesFound |-> f.found, newAnomalies |-> f.saved]

\* cron.schedule callback: try { await run; log } catch { log }.
ScheduledOutcome(threw) == IF threw THEN "failed_logged" ELSE "completed"

TriggerOutcome_Swallow(threw) == "returned"

\* triggerAnomalyDetection: try { return await run } catch { log; throw }.
TriggerOutcome(threw) == IF threw THEN "rethrown" ELSE "returned"

CallerOutcome(j, threw) ==
  IF j = "cron" THEN ScheduledOutcome(threw) ELSE TriggerOutcome(threw)

\* The summary reaches the caller.
Return(j) ==
  LET f == job[j]
  IN /\ f.pc = "return"
     /\ job' = [job EXCEPT ![j] = IdleJob]
     /\ outcome' = [outcome EXCEPT ![j] = CallerOutcome(j, FALSE)]
     /\ succ' = [o \in Slots |-> FALSE]
     /\ quiet' = [o \in Slots |-> FALSE]
     /\ lastRun' = IF quiet[j]
                   THEN [valid |-> TRUE, clean |-> f.errs = {},
                         day |-> IF f.day0 = DayOf(now) THEN f.day0 ELSE NoTime,
                         store |-> anomalies]
                   ELSE NoRun
     /\ UNCHANGED detectorVars
     /\ UNCHANGED <<solarUnits, readings, anomalies, now, response, runs, faults, ops, envs>>

\* The rejection of SolarUnit.find reaches the caller.
Propagate(j) ==
  /\ job[j].pc = "threw"
  /\ job' = [job EXCEPT ![j] = IdleJob]
  /\ outcome' = [outcome EXCEPT ![j] = CallerOutcome(j, TRUE)]
  /\ Disturb
  /\ UNCHANGED detectorVars
  /\ UNCHANGED <<solarUnits, readings, anomalies, now, response, runs, faults, ops, envs>>

\* ------------------------------------------------------ resolution workflow
NotesInputs == {Undefined, "panel cleaned"}

\* if (notes): undefined and the empty string are falsy.
Truthy(notes) == notes \notin {Undefined, ""}

\* The same switch storing the notes whether or not any were given.
ApplyAction_NotesAlways(a, userId, action, notes, t) ==
  CASE action = "acknowledge" ->
         [a EXCEPT !.status = "ACKNOWLEDGED", !.acknowledgedAt = t,
                   !.acknowledgedBy = userId]
    [] action = "resolve" ->
         [a EXCEPT !.status = "RESOLVED", !.resolvedAt = t, !.resolvedBy = userId,
                   !.resolutionNotes = notes]
    [] action = "false_positive" ->
         [a EXCEPT !.status = "FALSE_POSITIVE", !.resolvedAt = t, !.resolvedBy = userId,
                   !.resolutionNotes = notes]

\* The same switch with acknowledge reopening an anomaly that was closed.
ApplyAction_Reopen(a, userId, action, notes, t) ==
  CASE action = "acknowledge" ->
         [a EXCEPT !.status = IF a.status \in {"RESOLVED", "FALSE_POSITIVE"}
                              THEN "OPEN" ELSE "ACKNOWLEDGED",
                   !.acknowledgedAt = t, !.acknowledgedBy = userId]
    [] action = "resolve" ->
         [a EXCEPT !.status = "RESOLVED", !.resolvedAt = t, !.resolvedBy = userId,
                   !.resolutionNotes = IF Truthy(notes) THEN notes ELSE @]
    [] action = "false_positive" ->
         [a EXCEPT !.status = "FALSE_POSITIVE", !.resolvedAt = t, !.resolvedBy = userId,
                   !.resolutionNotes = IF Truthy(notes) THEN notes ELSE @]

\* The switch of updateAnomalyStatus on a found document.
ApplyAction(a, userId, action, notes, t) ==
  CASE action = "acknowledge" ->
         [a EXCEPT !.status = "ACKNOWLEDGED", !.acknowledgedAt = t,
                   !.acknowledgedBy = userId]
    [] action = "resolve" ->
         [a EXCEPT !.status = "RESOLVED", !.resolvedAt = t, !.resolvedBy = userId,
                   !.resolutionNotes = IF Truthy(notes) THEN notes ELSE @]
    [] action = "false_positive" ->
         [a EXCEPT !.status = "FALSE_POSITIVE", !.resolvedAt = t, !.resolvedBy = userId,
                   !.resolutionNotes = IF Truthy(notes) THEN notes ELSE @]

\* The same update applied to every document of the anomaly's solar unit.
updateAnomalyStatus_WholeUnit(store, anomalyId, userId, action, notes, t) ==
  IF anomalyId \in 1..Len(store)
  THEN [n \in 1..Len(store) |->
          IF store[n].solarUnitId = store[anomalyId].solarUnitId
          THEN ApplyAction(store[n], userId, action, notes, t)
          ELSE store[n]]
  ELSE store

\* The same update creating a document when the id is unknown.
updateAnomalyStatus_Upsert(store, anomalyId, userId, action, notes, t) ==
  IF anomalyId \in 1..Len(store)
  THEN [store EXCEPT ![anomalyId] = ApplyAction(@, userId, action, notes, t)]
  ELSE Append(store,
              ApplyAction(NewDocument(Finding("u1", "ZERO_PRODUCTION", "CRITICAL", 0, 0,
                                              Details("none", Absent, Absent, Absent, Absent),
                                              Absent),
                                      "OPEN", t),
                          userId, action, notes, t))

updateAnomalyStatus_DeleteFalsePositive(store, anomalyId, userId, action, notes, t) ==
  IF anomalyId \in 1..Len(store) /\ action = "false_positive"
  THEN SubSeq(store, 1, anomalyId - 1) \o SubSeq(store, anomalyId + 1, Len(store))
  ELSE IF anomalyId \in 1..Len(store)
  THEN [store EXCEPT ![anomalyId] = ApplyAction(@, userId, action, notes, t)]
  ELSE store

\* updateAnomalyStatus: findById, switch, save.  The collection afterwards,
\* or the collection unchanged when the id is unknown (the call throws).
updateAnomalyStatus(store, anomalyId, userId, action, notes, t) ==
  IF anomalyId \in 1..Len(store)
  THEN [store EXCEPT ![anomalyId] = ApplyAction(@, userId, action, notes, t)]
  ELSE store

\* SolarUnit.findOne({userId: user._id})
SolarUnitOf(us, user) ==
  {u \in SolarUnitIds : UnitUserId[u] = user /\ us[u] # Deleted}

\* The access check of the three POST routes: "ok", or the status refused with.
AccessCheck(us, store, user, anomalyId) ==
  IF SolarUnitOf(us, user) = {} THEN "ok"
  ELSE IF anomalyId \notin 1..Len(store) THEN "404"
  ELSE IF Role[user] # "admin" /\ store[anomalyId].solarUnitId \notin SolarUnitOf(us, user)
       THEN "403"
  ELSE "ok"

\* POST /:anomalyId/acknowledge | resolve | false-positive
PostStatus(limit, action, user, anomalyId, notes) ==
  LET access == AccessCheck(solarUnits, anomalies, user, anomalyId)
      known == anomalyId \in 1..Len(anomalies)
      Reply(code, error) ==
        [op |-> action, anomalyId |-> anomalyId, code |-> code, error |-> error]
  IN /\ ops < limit
     /\ ops' = ops + 1
     /\ IF access = "404"
        THEN /\ response' = Reply(404, "Anomaly not found")
             /\ UNCHANGED anomalies
        ELSE IF access = "403"
        THEN /\ response' = Reply(403, "Access denied")
             /\ UNCHANGED anomalies
        ELSE /\ anomalies' = updateAnomalyStatus(anomalies, anomalyId, user, action, notes, now)
             /\ response' = IF known
                            THEN Reply(200, "none")
                            ELSE Reply(500, "Anomaly not found")
     /\ IF anomalies' # anomalies THEN Disturb ELSE UNCHANGED <<succ, quiet, lastRun>>
     /\ UNCHANGED detectorVars
     /\ UNCHANGED <<solarUnits, readings, now, job, outcome, runs, faults, envs>>

AnomalyIds == 1..(Len(anomalies) + 1)

PostAcknowledge(limit) ==
  \E user \in Users, id \in AnomalyIds :
    PostStatus(limit, "acknowledge", user, id, Undefined)

PostResolve(limit) ==
  \E user \in Users, id \in AnomalyIds, notes \in NotesInputs :
    PostStatus(limit, "resolve", user, id, notes)

PostFalsePositive(limit) ==
  \E user \in Users, id \in AnomalyIds, notes \in NotesInputs :
    PostStatus(limit, "false_positive", user, id, notes)

\* ------------------------------------------------- single-unit detection
StoreAfterDetect_Persist(store, findings, t) ==
  store \o [k \in 1..Len(findings) |-> NewAnomaly(findings[k], t)]

\* The Anomaly collection after POST /detect/:solarUnitId answered with the
\* findings: the route calls neither findOne nor create.
StoreAfterDetect(store, findings, t) == store

\* POST /detect/:solarUnitId: admin only; detectAnomaliesForSolarUnit throws
\* when findById finds no solar unit, and the route passes the error on.
PostDetect(limit) ==
  \E user \in Users, u \in SolarUnitIds :
    LET Reply(code, error) ==
          [op |-> "detect", anomalyId |-> 0, solarUnitId |-> u,
           code |-> code, error |-> error]
    IN /\ ops < limit
       /\ ops' = ops + 1
       /\ IF Role[user] # "admin"
          THEN /\ response' = Reply(403, "Admin access required")
               /\ UNCHANGED <<anomalies, detected>>
          ELSE IF solarUnits[u] = Deleted
          THEN /\ response' = Reply(500, "Solar unit not found")
               /\ UNCHANGED <<anomalies, detected>>
          ELSE \E found \in {DetectAll(readings[u], u, Capacity[u], WindowDays, DayOf(now))} :
                 /\ response' = Reply(200, "none")
                 /\ detected' = found
                 /\ anomalies' = StoreAfterDetect(anomalies, found, now)
       /\ IF anomalies' # anomalies THEN Disturb ELSE UNCHANGED <<succ, quiet, lastRun>>
       /\ UNCHANGED <<solarUnits, readings, now, job, outcome, runs, faults, envs,
                      window, called, aggDays>>

\* ------------------------------------------------------------- queries
\* GET /, /my, /solar-unit/:solarUnitId (getAllAnomalies,
\* getAnomaliesForSolarUnit): Anomaly.find and countDocuments only.
GetAnomalies ==
  /\ response' = [op |-> "list", anomalyId |-> 0, code |-> 200, error |-> "none"]
  /\ UNCHANGED detectorVars
  /\ UNCHANGED <<solarUnits, readings, anomalies, now, job, outcome,
                 succ, quiet, lastRun, runs, faults, ops, envs>>

\* GET /stats, /my/stats (getAnomalyStats): Anomaly.aggregate only.
GetAnomalyStats ==
  /\ response' = [op |-> "stats", anomalyId |-> 0, code |-> 200, error |-> "none"]
  /\ UNCHANGED detectorVars
  /\ UNCHANGED <<solarUnits, readings, anomalies, now, job, outcome,
                 succ, quiet, lastRun, runs, faults, ops, envs>>

\* ------------------------------------------------------- external changes
IngestDay == W0 + 1
IngestEnergy == 1300

\* The data sync inserts a reading.
IngestReading ==
  \E u \in SolarUnitIds :
    /\ envs < MaxEnv
    /\ envs' = envs + 1
    /\ readings' = [readings EXCEPT ![u] = Append(@, Reading(IngestDay, IngestEnergy))]
    /\ Disturb
    /\ UNCHANGED detectorVars
    /\ UNCHANGED <<solarUnits, anomalies, now, job, outcome, response, runs, faults, ops>>

\* deleteSolarUnit
DeleteSolarUnit ==
  \E u \in SolarUnitIds :
    /\ envs < MaxEnv
    /\ solarUnits[u] # Deleted
    /\ envs' = envs + 1
    /\ solarUnits' = [solarUnits EXCEPT ![u] = Deleted]
    /\ Disturb
    /\ UNCHANGED detectorVars
    /\ UNCHANGED <<readings, anomalies, now, job, outcome, response, runs, faults, ops>>

\* Time passes.
Tick ==
  /\ envs < MaxEnv
  /\ envs' = envs + 1
  /\ now' = now + 1
  /\ UNCHANGED detectorVars
  /\ UNCHANGED <<solarUnits, readings, anomalies, job, outcome, response,
                 succ, quiet, lastRun, runs, faults, ops>>

\* ------------------------------------------------ detectors called alone
\* The windows a detector is called on: daily records with distinct,
\* ascending dates, as getDailyRecords returns them.
MaxShortLen == 4
PatternLen == 5
RegressionLen == 7
ShortTotals == {0, 1, 5, 6, 79, 80, 1200, 1201}
PatternTotals == {0, 5, 6, 80}
RegressionTotals == {0, 7, 19}
WindowUnit == "u1"

DailyRecord(d, e) == [date |-> d, totalEnergy |-> e]

\* One record per day from day 1 on.
Consecutive(totals) ==
  [i \in 1..Len(totals) |-> DailyRecord(i, totals[i])]

\* The same, with no reading on the day after the k-th record.
WithMissingDay(totals, k) ==
  [i \in 1..Len(totals) |-> DailyRecord(IF i <= k THEN i ELSE i + 1, totals[i])]

ShortWindows ==
  UNION {{Consecutive(t) : t \in [1..n -> ShortTotals]} : n \in 1..MaxShortLen}

PatternWindows ==
  {Consecutive(t) : t \in [1..PatternLen -> PatternTotals]}
    \cup {WithMissingDay(t, k) : t \in [1..PatternLen -> PatternTotals],
                                 k \in 1..(PatternLen - 1)}

RegressionWindows ==
  {Consecutive(t) : t \in [1..RegressionLen -> RegressionTotals]}

\* 14 daily totals decreasing by 10 per day from 500.
DecliningWindow == Consecutive([i \in 1..WindowDays |-> 500 - 10 * (i - 1)])

Windows ==
  ShortWindows \cup PatternWindows \cup RegressionWindows \cup {DecliningWindow}

InitDetect ==
  /\ InitSystem
  /\ solarUnits[WindowUnit] = "ACTIVE"
  /\ solarUnits["u2"] = "ACTIVE"
  /\ window \in Windows
  /\ detected = <<>>
  /\ called = "none"
  /\ aggDays = WindowDays

\* One detector is called on the window and returns its findings.
CallDetector(name, findings) ==
  /\ window # <<>>
  /\ called = "none"
  /\ called' = name
  /\ detected' = findings
  /\ UNCHANGED <<solarUnits, readings, anomalies, now, job, outcome, response,
                 succ, quiet, lastRun, runs, faults, ops, envs, window, aggDays>>

CallZeroProduction ==
  CallDetector("ZERO_PRODUCTION",
               detectZeroProduction(window, WindowUnit, Capacity[WindowUnit]))

CallSignificantDrop ==
  CallDetector("SIGNIFICANT_DROP",
               detectSignificantDrop(window, WindowUnit, DropThresholdPercent))

CallGradualDegradation ==
  CallDetector("GRADUAL_DEGRADATION",
               detectGradualDegradation(window, WindowUnit, DegradationThresholdPercent))

CallSensorSpike ==
  CallDetector("SENSOR_SPIKE",
               detectSensorSpike(window, WindowUnit, Capacity[WindowUnit]))

CallIntermittentFailure ==
  CallDetector("INTERMITTENT_FAILURE",
               detectIntermittentFailure(window, WindowUnit, Capacity[WindowUnit]))

CallBelowThreshold ==
  CallDetector("BELOW_THRESHOLD",
               detectBelowThreshold(window, WindowUnit, Capacity[WindowUnit],
                                    BelowThresholdPercent))

\* ------------------------------------------------ aggregator called alone
\* The readings getDailyRecords is called on: up to MaxReadings readings of
\* the unit, dated around both ends of the window.
MaxReadings == 3
ShortDays == 1
ReadingDays ==
  {Today0 - WindowDays - 1, Today0 - WindowDays, Today0 - ShortDays - 1,
   Today0 - ShortDays, Today0, Today0 + 1}
ReadingEnergies == {0, 5}

ReadingSets ==
  UNION {[1..n -> {Reading(d, e) : d \in ReadingDays, e \in ReadingEnergies}] :
           n \in 0..MaxReadings}

InitAggregate ==
  /\ \E rs \in ReadingSets :
       InitWith([u \in SolarUnitIds |-> IF u = WindowUnit THEN rs ELSE <<>>])
  /\ solarUnits["u2"] = "ACTIVE"
  /\ window = <<>>
  /\ detected = <<>>
  /\ called = "none"
  /\ aggDays \in {ShortDays, WindowDays}

\* getDailyRecords(solarUnitId, days) at the current date.
CallGetDailyRecords ==
  /\ called = "none"
  /\ called' = "getDailyRecords"
  /\ window' = getDailyRecords(readings[WindowUnit], aggDays, DayOf(now))
  /\ UNCHANGED <<solarUnits, readings, anomalies, now, job, outcome, response,
                 succ, quiet, lastRun, runs, faults, ops, envs, detected, aggDays>>

\* ---------------------------------------------------------- specifications
JobStepOk(j) ==
  \/ ListUnits(j)
  \/ DetectUnit(j)
  \/ FindExisting(j)
  \/ CreateAnomaly(j)
  \/ Finish(j)
  \/ Return(j)

JobStepFails(j) ==
  \/ ListUnitsFails(j)
  \/ UnitFails(j)
  \/ Propagate(j)

Env ==
  \/ IngestReading
  \/ DeleteSolarUnit
  \/ Tick

Requests(limit) ==
  \/ PostAcknowledge(limit)
  \/ PostResolve(limit)
  \/ PostFalsePositive(limit)

\* Runs never overlap: a run starts only when no other is in flight.
StartJobAlone(j) == OthersIdle(j) /\ StartJob(j)

\* Overlapping runs (the cron callback and the manual trigger are
\* independent), storage errors and a changing environment.
Next ==
  \/ \E j \in Slots : StartJob(j)
  \/ \E j \in Slots : JobStepOk(j)
  \/ \E j \in Slots : JobStepFails(j)
  \/ Env

Spec == Init /\ [][Next]_vars

\* Non-overlapping runs with everything else, resolution requests included.
NextSeq ==
  \/ \E j \in Slots : StartJobAlone(j)
  \/ \E j \in Slots : JobStepOk(j)
  \/ \E j \in Slots : JobStepFails(j)
  \/ Env
  \/ Requests(MaxOps)

SpecSeq == Init /\ [][NextSeq]_vars

\* The resolution workflow over the anomalies that error-free,
\* non-overlapping runs store.
NextWorkflow ==
  \/ \E j \in Slots : StartJobAlone(j)
  \/ \E j \in Slots : JobStepOk(j)
  \/ Requests(MaxRequests)

SpecWorkflow == Init /\ [][NextWorkflow]_vars

\* Readings on which the six detectors all fire: u1 has seven days with a
\* declining trend, two separated failure days (one of them empty), one day
\* far below the mean and most days under the baseline; u2 has one day with
\* an implausible total.
AuditReadings ==
  [u \in SolarUnitIds |->
     IF u = "u1"
     THEN <<Reading(W0 + 1, 70), Reading(W0 + 2, 60), Reading(W0 + 3, 0),
            Reading(W0 + 4, 60), Reading(W0 + 5, 3), Reading(W0 + 6, 50),
            Reading(W0 + 7, 40)>>
     ELSE <<Reading(W0 + 1, IngestEnergy)>>]

InitAudit ==
  /\ InitWith(AuditReadings)
  /\ solarUnits["u2"] = "ACTIVE"
  /\ window = <<>>
  /\ detected = <<>>
  /\ called = "none"
  /\ aggDays = WindowDays

Queries ==
  \/ GetAnomalies
  \/ GetAnomalyStats

\* Error-free scheduled runs over AuditReadings, with resolution requests,
\* listings and statistics queries.
NextAudit ==
  \/ StartJobAlone("cron")
  \/ JobStepOk("cron")
  \/ Requests(MaxOps)
  \/ Queries

SpecAudit == InitAudit /\ [][NextAudit]_vars

\* Each detector on its own, over every window of Windows.
NextDetect ==
  \/ CallZeroProduction
  \/ CallSignificantDrop
  \/ CallGradualDegradation
  \/ CallSensorSpike
  \/ CallIntermittentFailure
  \/ CallBelowThreshold

SpecDetect == InitDetect /\ [][NextDetect]_vars

\* Error-free scheduled runs, a solar unit deleted at any moment, and the
\* requests of the detection and resolution routes.
NextRoutes ==
  \/ StartJobAlone("cron")
  \/ JobStepOk("cron")
  \/ DeleteSolarUnit
  \/ PostDetect(MaxOps)
  \/ Requests(MaxOps)

SpecRoutes == Init /\ [][NextRoutes]_vars

\* The aggregator on its own, over every reading set of ReadingSets.
NextAggregate == CallGetDailyRecords

SpecAggregate == InitAggregate /\ [][NextAggregate]_vars

\* ------------------------------------------------------------------ claims
Terminal == {"RESOLVED", "FALSE_POSITIVE"}

\* The run in slot j took a step that was not a caught error.
Stepped(j) == job'[j] # job[j] /\ job'[j].errs = job[j].errs

\* C1: overlapping runs never store two anomalies under one dedup key: the
\* collection holds as many distinct keys as documents.
C1_OverlapStoresOnePerKey ==
  Cardinality({Key(anomalies[n]) : n \in 1..Len(anomalies)}) = Len(anomalies)

C3_DedupKeyUnique ==
  \A m, n \in 1..Len(anomalies) :
    m # n => Key(anomalies[m]) # Key(anomalies[n])

C3_Witness ==
  /\ runs = 2
  /\ Len(anomalies) >= 2
  /\ \E n \in 1..Len(anomalies) : anomalies[n].status # "OPEN"
  /\ \E j \in Slots : job[j].pc = "return" /\ job[j].found > job[j].saved

\* C4: a status that is RESOLVED or FALSE_POSITIVE never changes again.
C4_TerminalStatusIsFinal ==
  [][\A n \in 1..Len(anomalies) :
       anomalies[n].status \in Terminal =>
         anomalies'[n].status = anomalies[n].status]_vars

\* C5: a resolution request on an anomaly whose status is RESOLVED or
\* FALSE_POSITIVE is answered with an error and leaves the collection as it was.
C5_TerminalRequestRejected ==
  [][(/\ ops' = ops + 1
      /\ response'.anomalyId \in 1..Len(anomalies)
      /\ anomalies[response'.anomalyId].status \in Terminal) =>
       (response'.code # 200 /\ anomalies' = anomalies)]_vars

\* C6: acknowledge on an anomaly that is not OPEN neither sets the status to
\* ACKNOWLEDGED nor overwrites acknowledgedAt / acknowledgedBy.
C6_AcknowledgeOnlyFromOpen ==
  [][(/\ ops' = ops + 1
      /\ response'.op = "acknowledge"
      /\ response'.anomalyId \in 1..Len(anomalies)
      /\ anomalies[response'.anomalyId].status # "OPEN") =>
       LET a == anomalies[response'.anomalyId]
           b == anomalies'[response'.anomalyId]
       IN /\ b.status = a.status
          /\ b.acknowledgedAt = a.acknowledgedAt
          /\ b.acknowledgedBy = a.acknowledgedBy]_vars

\* C7: an error caught for one solar unit moves the run on to the next unit
\* without touching the collection or the counters; once the units are
\* listed the run never throws; it returns only after visiting every listed
\* unit; and every unit left without an error has all its findings stored.
C7_UnitErrorDoesNotAbortRun ==
  [][\A j \in Slots :
       LET f == job[j]
           g == job'[j]
       IN /\ (f.pc # "idle" /\ g.errs # f.errs /\ g.pc # "idle") =>
               /\ g.errs = f.errs \cup {f.i}
               /\ g.pc = "detect" /\ g.i = f.i + 1 /\ g.units = f.units
               /\ g.saved = f.saved
               /\ anomalies' = anomalies
          /\ f.pc \in {"detect", "find", "create"} => g.pc # "threw"
          /\ (f.pc # "return" /\ g.pc = "return") =>
               (g.i = Len(g.units) + 1 /\ f.pc = "detect")
          /\ (f.pc \in {"detect", "find", "create"} /\ g.i = f.i + 1 /\ g.errs = f.errs) =>
               \A x \in 1..Len(f.findings) : ExistingAnomaly(anomalies', f.findings[x])]_vars

C7_Witness ==
  \E j \in Slots :
    /\ runs = 1
    /\ job[j].pc = "return"
    /\ Len(job[j].units) = 2
    /\ job[j].errs = {1}
    /\ \E n \in 1..Len(anomalies) : anomalies[n].solarUnitId = job[j].units[2]

\* C8: when listing the solar units fails the run inserts nothing and ends
\* by throwing, never by returning a summary; triggerAnomalyDetection
\* rethrows, the cron callback logs the failure and its slot is free for the
\* next firing.
C8_ListFailurePropagates ==
  [][\A j \in Slots :
       LET f == job[j]
           g == job'[j]
       IN /\ (f.pc = "list" /\ g.pc # "detect" /\ g.pc # "list") =>
               (g.pc = "threw" /\ g.saved = 0 /\ g.found = 0 /\ anomalies' = anomalies)
          /\ (f.pc = "threw" /\ g.pc # "threw") =>
               /\ g.pc = "idle"
               /\ anomalies' = anomalies
               /\ outcome'[j] = IF j = "manual" THEN "rethrown" ELSE "failed_logged"
          /\ (g.pc = "threw" /\ f.pc # "threw") => f.pc = "list"]_vars

C8_Witness ==
  /\ outcome["cron"] = "failed_logged"
  /\ job["cron"].pc = "list"
  /\ anomalies = <<>>

\* C9: a finding whose key matches a stored anomaly when it is looked up is
\* dropped, and no step of a run changes a document already stored, whatever
\* its status.
C9_MatchedFindingIsDiscarded ==
  [][\A j \in Slots :
       LET f == job[j]
           g == job'[j]
       IN /\ (f.pc = "find" /\ Stepped(j) /\ ExistingAnomaly(anomalies, f.findings[f.k])) =>
               (anomalies' = anomalies /\ g.pc # "create" /\ g.saved = f.saved)
          /\ g # f =>
               /\ Len(anomalies') >= Len(anomalies)
               /\ \A n \in 1..Len(anomalies) : anomalies'[n] = anomalies[n]]_vars

C9_Witness ==
  \E j \in Slots :
    /\ job[j].pc = "return"
    /\ job[j].errs = {}
    /\ job[j].found > 0
    /\ job[j].saved = 0
    /\ envs = 0
    /\ \E n \in 1..Len(anomalies) :
         /\ anomalies[n].status \in {"ACKNOWLEDGED", "RESOLVED", "FALSE_POSITIVE"}
         /\ anomalies[n].solarUnitId \in {job[j].units[x] : x \in 1..Len(job[j].units)}

\* C10: a finding without a stored match when it is looked up goes on to be
\* created; a create adds exactly one document, for that finding, with status
\* OPEN, detectedAt = now and empty audit stamps, and counts it; nothing else
\* adds documents.
C10_NewFindingStoredOpen ==
  [][/\ \A j \in Slots :
          LET f == job[j]
              g == job'[j]
          IN /\ (f.pc = "find" /\ Stepped(j) /\ ~ExistingAnomaly(anomalies, f.findings[f.k])) =>
                  (g.pc = "create" /\ g.findings = f.findings /\ g.k = f.k)
             /\ (f.pc = "create" /\ Stepped(j)) =>
                  /\ Len(anomalies') = Len(anomalies) + 1
                  /\ Key(anomalies'[Len(anomalies')]) = Key(f.findings[f.k])
                  /\ g.saved = f.saved + 1
     /\ Len(anomalies') # Len(anomalies) =>
          /\ Len(anomalies') = Len(anomalies) + 1
          /\ \E j \in Slots : job[j].pc = "create" /\ Stepped(j)
          /\ LET a == anomalies'[Len(anomalies')]
             IN /\ a.status = "OPEN"
                /\ a.detectedAt = now
                /\ a.acknowledgedAt = NoTime /\ a.acknowledgedBy = NoUser
                /\ a.resolvedAt = NoTime /\ a.resolvedBy = NoUser
                /\ a.resolutionNotes = Undefined]_vars

C10_Witness ==
  \E n \in 1..Len(anomalies) :
    /\ anomalies[n].status = "OPEN"
    /\ anomalies[n].detectedAt = 1
    /\ now = 1

\* The severity the anomaly types are documented to carry.
SeverityFor ==
  [t \in ANOMALY_TYPES |->
     CASE t = "ZERO_PRODUCTION" -> "CRITICAL"
       [] t \in {"SIGNIFICANT_DROP", "GRADUAL_DEGRADATION", "INTERMITTENT_FAILURE"} -> "WARNING"
       [] t \in {"SENSOR_SPIKE", "BELOW_THRESHOLD"} -> "INFO"]

\* C11: every finding of a run and every stored anomaly carries the severity
\* fixed for its type (ZERO_PRODUCTION CRITICAL; SIGNIFICANT_DROP,
\* GRADUAL_DEGRADATION, INTERMITTENT_FAILURE WARNING; SENSOR_SPIKE,
\* BELOW_THRESHOLD INFO), and no step changes the severity or the type of a
\* stored anomaly.
C11_SeverityFollowsType ==
  /\ [](/\ \A j \in Slots : \A x \in 1..Len(job[j].findings) :
             /\ job[j].findings[x].anomalyType \in ANOMALY_TYPES
             /\ job[j].findings[x].severity = SeverityFor[job[j].findings[x].anomalyType]
        /\ \A n \in 1..Len(anomalies) :
             /\ anomalies[n].anomalyType \in ANOMALY_TYPES
             /\ anomalies[n].severity = SeverityFor[anomalies[n].anomalyType])
  /\ [][\A n \in 1..Len(anomalies) :
          n <= Len(anomalies') =>
            /\ anomalies'[n].severity = anomalies[n].severity
            /\ anomalies'[n].anomalyType = anomalies[n].anomalyType]_vars

C11_Witness ==
  /\ {anomalies[n].anomalyType : n \in 1..Len(anomalies)} = ANOMALY_TYPES
  /\ \E n \in 1..Len(anomalies) : anomalies[n].status \in {"RESOLVED", "FALSE_POSITIVE"}
  /\ \E n \in 1..Len(anomalies) : anomalies[n].status = "OPEN"

\* C12: across job runs, resolution requests, listings and statistics
\* queries no stored anomaly is removed: the collection never shrinks and
\* every document stays, under its _id, the anomaly it was stored as.
C12_StoredAnomaliesNeverRemoved ==
  [][/\ Len(anomalies') >= Len(anomalies)
     /\ \A n \in 1..Len(anomalies) :
          n <= Len(anomalies') =>
            /\ Key(anomalies'[n]) = Key(anomalies[n])
            /\ anomalies'[n].detectedAt = anomalies[n].detectedAt]_vars

C12_Witness ==
  /\ runs = MaxRuns
  /\ job["cron"].pc = "return"
  /\ job["cron"].saved = 0
  /\ Len(anomalies) >= 2
  /\ response.op \in {"list", "stats"}
  /\ \E n \in 1..Len(anomalies) : anomalies[n].status = "FALSE_POSITIVE"

\* C13 (as claimed): a finding carries an estimatedEnergyLoss exactly when
\* its type is ZERO_PRODUCTION, SIGNIFICANT_DROP or INTERMITTENT_FAILURE.
C13_LossOnlyForThreeTypes ==
  \A x \in 1..Len(detected) :
    (detected[x].estimatedEnergyLoss # Absent) <=>
      detected[x].anomalyType \in
        {"ZERO_PRODUCTION", "SIGNIFICANT_DROP", "INTERMITTENT_FAILURE"}

\* C13 (amended): a finding carries an estimatedEnergyLoss exactly when its
\* type is ZERO_PRODUCTION, SIGNIFICANT_DROP, GRADUAL_DEGRADATION or
\* INTERMITTENT_FAILURE; SENSOR_SPIKE and BELOW_THRESHOLD findings carry none.
C13_LossForFourTypes ==
  \A x \in 1..Len(detected) :
    /\ detected[x].anomalyType = called
    /\ (detected[x].estimatedEnergyLoss # Absent) <=>
         detected[x].anomalyType \in
           {"ZERO_PRODUCTION", "SIGNIFICANT_DROP", "GRADUAL_DEGRADATION",
            "INTERMITTENT_FAILURE"}

C13_Witness ==
  /\ called = "GRADUAL_DEGRADATION"
  /\ Len(window) = RegressionLen
  /\ Len(detected) = 1
  /\ detected[1].estimatedEnergyLoss # Absent

\* The days of the window with a non-zero total under 20% of capacity * 4,
\* and the days with a non-zero total.
BelowDays == {i \in 1..Len(window) :
                /\ window[i].totalEnergy > 0
                /\ 5 * window[i].totalEnergy < 4 * Capacity[WindowUnit]}
NonZeroDays == {i \in 1..Len(window) : window[i].totalEnergy > 0}

FailureDays == {i \in 1..Len(window) : 20 * window[i].totalEnergy <= Capacity[WindowUnit]}
RecoveryDays == (1..Len(window)) \ FailureDays

\* C15: INTERMITTENT_FAILURE emits one finding exactly when the window has
\* at least 5 days, at least 2 failure days, at least 2 non-failure days, a
\* recorded non-failure day between two failure days and two failure days
\* more than 1 calendar day apart; otherwise none.
C15_IntermittentNeedsInterleaving ==
  called = "INTERMITTENT_FAILURE" =>
    Len(detected) =
      (IF /\ Len(window) >= 5
          /\ Cardinality(FailureDays) >= 2
          /\ Cardinality(RecoveryDays) >= 2
          /\ \E a, b \in FailureDays : \E r \in RecoveryDays : a < r /\ r < b
          /\ \E a, b \in FailureDays : window[b].date - window[a].date > 1
       THEN 1 ELSE 0)

\* The regression of the window in exact arithmetic: the slope is
\* WindowSlopeNum / WindowSlopeDen and the decline over the window, in percent
\* of the window mean, is WindowDeclineNum / WindowDeclineDen.
WindowSum == SumSeq(Energies(window))
WindowSlopeNum ==
  Len(window) * SumSeq([i \in 1..Len(window) |-> (i - 1) * window[i].totalEnergy])
    - SumSeq([i \in 1..Len(window) |-> i - 1]) * WindowSum
WindowSlopeDen ==
  Len(window) * SumSeq([i \in 1..Len(window) |-> (i - 1) * (i - 1)])
    - SumSeq([i \in 1..Len(window) |-> i - 1]) * SumSeq([i \in 1..Len(window) |-> i - 1])
WindowDeclineNum == Abs(WindowSlopeNum) * (Len(window) - 1) * Len(window) * 100
WindowDeclineDen == WindowSlopeDen * WindowSum

\* Two windows whose exact decline is 15% of the mean.
BoundaryWindowBelow == Consecutive(<<7, 7, 7, 0, 0, 19, 0>>)
BoundaryWindowAbove == Consecutive(<<7, 19, 7, 19, 19, 19, 0>>)

\* C16: GRADUAL_DEGRADATION emits exactly one finding when the window has at
\* least 7 days, the least-squares slope is negative and the decline over the
\* window is at least 15% of the window mean, exactly 15% included; it emits
\* none otherwise.
C16_DeclineAtLeastThreshold ==
  called = "GRADUAL_DEGRADATION" =>
    Len(detected) =
      (IF /\ Len(window) >= 7
          /\ WindowSlopeNum < 0
          /\ WindowDeclineNum >= DegradationThresholdPercent * WindowDeclineDen
       THEN 1 ELSE 0)

\* C16 as the code has it: one finding when the window has at least 7 days,
\* the slope is negative and the decline is more than 15% of the mean; none
\* when the window is shorter, the slope is not negative or the decline is
\* less than 15%.  At a decline of exactly 15% the comparison is made on the
\* rounded double: the first boundary window gives none, the second gives one.
\* The 14 totals decreasing by 10 from 500 give one finding.
C16_DeclineAboveThreshold ==
  called = "GRADUAL_DEGRADATION" =>
    /\ Len(detected) <= 1
    /\ (/\ Len(window) >= 7
        /\ WindowSlopeNum < 0
        /\ WindowDeclineNum > DegradationThresholdPercent * WindowDeclineDen)
         => Len(detected) = 1
    /\ (\/ Len(window) < 7
        \/ WindowSlopeNum >= 0
        \/ WindowDeclineNum < DegradationThresholdPercent * WindowDeclineDen)
         => Len(detected) = 0
    /\ window = BoundaryWindowBelow => Len(detected) = 0
    /\ window = BoundaryWindowAbove => Len(detected) = 1
    /\ window = DecliningWindow => Len(detected) = 1
    /\ \A x \in 1..Len(detected) :
         /\ detected[x].anomalyType = "GRADUAL_DEGRADATION"
         /\ detected[x].affectedPeriod.startDate = window[1].date
         /\ detected[x].affectedPeriod.endDate = window[Len(window)].date

C16_Witness ==
  /\ called = "GRADUAL_DEGRADATION"
  /\ window = DecliningWindow
  /\ Len(detected) = 1

\* The findings of the call that cover exactly the day of record i.
FindingsForDay(i) ==
  {x \in 1..Len(detected) :
     /\ detected[x].affectedPeriod.startDate = window[i].date
     /\ detected[x].affectedPeriod.endDate = window[i].date}

\* The outcome of the intermittent pattern for a set F of failure records:
\* at least 5 days, 2 failure and 2 other days, and two successive failure
\* days more than one day apart.
IntermittentPattern(F) ==
  /\ Len(window) >= 5
  /\ Cardinality(F) >= 2
  /\ Cardinality((1..Len(window)) \ F) >= 2
  /\ \E a, b \in F :
       /\ a < b
       /\ \A c \in F : ~(a < c /\ c < b)
       /\ window[b].date - window[a].date > 1

StrictFailureDays == {i \in 1..Len(window) : 20 * window[i].totalEnergy < Capacity[WindowUnit]}

\* The days that count as below threshold when a day at 20% of the baseline
\* is counted too.
AtOrBelowDays ==
  {i \in 1..Len(window) :
     /\ window[i].totalEnergy > 0
     /\ window[i].totalEnergy * 100 <= BelowThresholdPercent * Capacity[WindowUnit] * 4}

SpikeStrict ==
  called = "SENSOR_SPIKE" =>
    \A i \in 1..Len(window) :
      window[i].totalEnergy = 12 * Capacity[WindowUnit] => FindingsForDay(i) = {}

DropStrict ==
  called = "SIGNIFICANT_DROP" =>
    \A i \in 1..Len(window) :
      (/\ window[i].totalEnergy > 0
       /\ (WindowSum - Len(window) * window[i].totalEnergy) * 100
            = DropThresholdPercent * WindowSum)
        => FindingsForDay(i) = {}

BelowStrict ==
  called = "BELOW_THRESHOLD" =>
    ((/\ 2 * Cardinality(BelowDays) < Len(window)
      /\ 2 * Cardinality(AtOrBelowDays) >= Len(window))
       => Len(detected) = 0)

ZeroDays == {i \in 1..Len(window) : 100 * window[i].totalEnergy <= Capacity[WindowUnit]}

\* Capacity 5000 and one day, day 5, with a total of 20.
ZeroExample == detectZeroProduction(<<DailyRecord(5, 20)>>, WindowUnit, 5000)

DropDays ==
  {i \in 1..Len(window) :
     /\ window[i].totalEnergy # 0
     /\ (WindowSum - Len(window) * window[i].totalEnergy) * 100
          > DropThresholdPercent * WindowSum}

\* Three days with a mean of 1000, the first with a total of 400.
DropExample ==
  detectSignificantDrop(Consecutive(<<400, 1300, 1300>>), WindowUnit, DropThresholdPercent)

SpikeDays == {i \in 1..Len(window) : 2 * window[i].totalEnergy > 3 * Capacity[WindowUnit] * 8}

\* C20: SENSOR_SPIKE emits exactly one single-day finding for each day whose
\* total exceeds 1.5 x (capacity x 8) and none for any other day, with
\* expectedValue capacity x 8 and actualValue the day's total.
C20_SpikePerDay ==
  called = "SENSOR_SPIKE" =>
    /\ Len(detected) = Cardinality(SpikeDays)
    /\ \A i \in 1..Len(window) :
         Cardinality(FindingsForDay(i)) = (IF i \in SpikeDays THEN 1 ELSE 0)
    /\ \A i \in SpikeDays : \A x \in FindingsForDay(i) :
         /\ detected[x].anomalyType = "SENSOR_SPIKE"
         /\ detected[x].detectionDetails.expectedValue = Rat(Capacity[WindowUnit] * 8, 1)
         /\ detected[x].detectionDetails.actualValue = Rat(window[i].totalEnergy, 1)

C20_Witness ==
  /\ called = "SENSOR_SPIKE"
  /\ \E i \in 1..Len(window) : window[i].totalEnergy = 12 * Capacity[WindowUnit]
  /\ \E i \in 1..Len(window) : window[i].totalEnergy = 12 * Capacity[WindowUnit] + 1
  /\ Len(detected) = 1

\* The days of the unit's readings that lie in [today - aggDays, today], and
\* the sum of the readings of day d.
DaysInWindow ==
  {readings[WindowUnit][i].day : i \in 1..Len(readings[WindowUnit])}
    \cap ((DayOf(now) - aggDays)..DayOf(now))
DayTotal(d) ==
  SumSeq([i \in 1..Len(readings[WindowUnit]) |->
            IF readings[WindowUnit][i].day = d
            THEN readings[WindowUnit][i].energyGenerated ELSE 0])

\* C21: the aggregator returns one aggregate per calendar day that has a
\* reading within [today - windowDays, today], in ascending date order, with
\* the sum of that day's readings as its total; readings before the window
\* or after today contribute no aggregate, days without readings are absent.
C21_AggregatesWithinWindow ==
  called = "getDailyRecords" =>
    /\ Len(window) = Cardinality(DaysInWindow)
    /\ {window[i].date : i \in 1..Len(window)} = DaysInWindow
    /\ \A i \in 1..Len(window) : window[i].totalEnergy = DayTotal(window[i].date)
    /\ \A i \in 1..(Len(window) - 1) : window[i].date < window[i + 1].date

PerDayTypes == {"ZERO_PRODUCTION", "SIGNIFICANT_DROP", "SENSOR_SPIKE"}

\* The period of finding or document a against the daily records of its
\* solar unit: one recorded day for a per-day type, the first to the last
\* recorded day for a window type.
PeriodFits(a) ==
  LET records == getDailyRecords(readings[a.solarUnitId], WindowDays, DayOf(now))
      p == a.affectedPeriod
  IN /\ p.startDate <= p.endDate
     /\ Len(records) > 0
     /\ IF a.anomalyType \in PerDayTypes
        THEN /\ p.startDate = p.endDate
             /\ \E i \in 1..Len(records) : records[i].date = p.startDate
        ELSE /\ p.startDate = records[1].date
             /\ p.endDate = records[Len(records)].date

\* C22: every finding returned by the detection of a solar unit and every
\* stored anomaly has startDate <= endDate: a per-day type covers one day, a
\* window type spans the first to the last day of the aggregated window.
C22_PeriodOrdered ==
  /\ \A n \in 1..Len(anomalies) : PeriodFits(anomalies[n])
  /\ \A j \in Slots : \A k \in 1..Len(job[j].findings) : PeriodFits(job[j].findings[k])

C22_Witness ==
  /\ \E n \in 1..Len(anomalies) :
       /\ anomalies[n].anomalyType = "GRADUAL_DEGRADATION"
       /\ anomalies[n].affectedPeriod.startDate < anomalies[n].affectedPeriod.endDate
  /\ \E n \in 1..Len(anomalies) : anomalies[n].anomalyType = "INTERMITTENT_FAILURE"
  /\ \E n \in 1..Len(anomalies) : anomalies[n].anomalyType = "BELOW_THRESHOLD"
  /\ \E n \in 1..Len(anomalies) : anomalies[n].anomalyType = "SENSOR_SPIKE"
  /\ \E n \in 1..Len(anomalies) : anomalies[n].anomalyType = "SIGNIFICANT_DROP"

C24_DetectIsDry ==
  [][(ops' # ops /\ response'.op = "detect") =>
       /\ anomalies' = anomalies
       /\ readings' = readings
       /\ solarUnits' = solarUnits
       /\ response'.code = 200 =>
            detected' = DetectAll(readings[response'.solarUnitId],
                                  response'.solarUnitId,
                                  Capacity[response'.solarUnitId],
                                  WindowDays, DayOf(now))]_vars

C24_Witness ==
  /\ response.op = "detect"
  /\ response.code = 200
  /\ detected # <<>>
  /\ Len(anomalies) > 0
  /\ \E k \in 1..Len(detected) : ~ExistingAnomaly(anomalies, detected[k])

StatusOps == {"acknowledge", "resolve", "false_positive"}

C26_NeverBackToOpen ==
  [][/\ Len(anomalies') >= Len(anomalies)
     /\ \A n \in 1..Len(anomalies) :
          anomalies[n].status # "OPEN" => anomalies'[n].status # "OPEN"]_vars

C26_Witness ==
  /\ runs = 2
  /\ ops = 2
  /\ \E j \in Slots : job[j].pc = "return" /\ job[j].found > 0 /\ job[j].saved = 0
  /\ \E n \in 1..Len(anomalies) :
       /\ anomalies[n].status = "RESOLVED"
       /\ anomalies[n].acknowledgedAt # NoTime

\* The notes a request may carry: none, the empty string, a text.
NotesGiven == NotesInputs \cup {""}

\* The document n after a successful request of userId.
Updated(n, userId, action, notes) ==
  updateAnomalyStatus(anomalies, n, userId, action, notes, now)[n]

\* Everything of document b but its status, stamps and notes is as in a.
SameApartFromResolution(a, b) ==
  [b EXCEPT !.status = a.status,
            !.acknowledgedAt = a.acknowledgedAt, !.acknowledgedBy = a.acknowledgedBy,
            !.resolvedAt = a.resolvedAt, !.resolvedBy = a.resolvedBy,
            !.resolutionNotes = a.resolutionNotes] = a

\* C27: a successful resolve sets RESOLVED and stamps resolvedAt / resolvedBy
\* with the current time and the actor, a successful false-positive sets
\* FALSE_POSITIVE with the same stamps, a successful acknowledge sets
\* ACKNOWLEDGED and stamps acknowledgedAt / acknowledgedBy; resolutionNotes is
\* overwritten only when notes are given, and acknowledge leaves resolvedAt,
\* resolvedBy and resolutionNotes alone.
C27_StampsFollowAction ==
  /\ [](\A n \in 1..Len(anomalies) : \A userId \in Users : \A notes \in NotesGiven :
          LET a == anomalies[n]
              ack == Updated(n, userId, "acknowledge", notes)
          IN /\ ack.status = "ACKNOWLEDGED"
             /\ ack.acknowledgedAt = now /\ ack.acknowledgedBy = userId
             /\ ack.resolvedAt = a.resolvedAt /\ ack.resolvedBy = a.resolvedBy
             /\ ack.resolutionNotes = a.resolutionNotes
             /\ \A action \in {"resolve", "false_positive"} :
                  LET b == Updated(n, userId, action, notes)
                  IN /\ b.status = (IF action = "resolve" THEN "RESOLVED"
                                    ELSE "FALSE_POSITIVE")
                     /\ b.resolvedAt = now /\ b.resolvedBy = userId
                     /\ b.acknowledgedAt = a.acknowledgedAt
                     /\ b.acknowledgedBy = a.acknowledgedBy
                     /\ b.resolutionNotes # a.resolutionNotes =>
                          (notes # Undefined /\ b.resolutionNotes = notes)
                     /\ notes \notin {Undefined, ""} => b.resolutionNotes = notes)
  /\ [][(ops' # ops /\ response'.op \in StatusOps /\ response'.code = 200) =>
          \E userId \in Users, notes \in NotesGiven :
            /\ response'.anomalyId \in 1..Len(anomalies)
            /\ anomalies' = [anomalies EXCEPT ![response'.anomalyId] =
                               Updated(response'.anomalyId, userId, response'.op, notes)]]_vars

C27_Witness ==
  \E n \in 1..Len(anomalies) :
    /\ anomalies[n].status = "FALSE_POSITIVE"
    /\ anomalies[n].resolutionNotes = "panel cleaned"
    /\ anomalies[n].resolvedBy = "staff1"
    /\ anomalies[n].acknowledgedBy = "admin1"

\* C28: a resolution request, served or refused, changes at most the status,
\* the audit stamps and the notes of the anomaly it names: that anomaly's
\* solar unit, type, severity, period and details, and every other stored
\* anomaly, stay as they were, so no dedup key changes.
C28_OnlyTheNamedAnomalyChanges ==
  [][(ops' # ops /\ response'.op \in StatusOps) =>
       /\ Len(anomalies') = Len(anomalies)
       /\ \A n \in 1..Len(anomalies) :
            /\ n # response'.anomalyId => anomalies'[n] = anomalies[n]
            /\ SameApartFromResolution(anomalies[n], anomalies'[n])
            /\ Key(anomalies'[n]) = Key(anomalies[n])
       /\ response'.code # 200 => anomalies' = anomalies]_vars

C28_Witness ==
  /\ response.op = "resolve"
  /\ response.code = 200
  /\ anomalies[response.anomalyId].status = "RESOLVED"
  /\ \E n \in 1..Len(anomalies) :
       /\ n # response.anomalyId
       /\ anomalies[n].solarUnitId = anomalies[response.anomalyId].solarUnitId
       /\ anomalies[n].status = "OPEN"

\* The user a served request stamped on document b.
Actor(op, b) == IF op = "acknowledge" THEN b.acknowledgedBy ELSE b.resolvedBy

\* C29: through the acknowledge, resolve and false-positive routes a user
\* who is not an admin changes the status of an anomaly only if the anomaly
\* belongs to the solar unit assigned to that user; a user without a solar
\* unit changes none.
C29_NonAdminChangesOwnAnomaliesOnly ==
  [][(ops' # ops /\ response'.op \in StatusOps /\ response'.code = 200) =>
       LET b == anomalies'[response'.anomalyId]
           user == Actor(response'.op, b)
       IN \/ Role[user] = "admin"
          \/ b.solarUnitId \in SolarUnitOf(solarUnits, user)]_vars

KeysOf(store) == {Key(store[n]) : n \in 1..Len(store)}

\* The keys of the findings an error-free run over the current readings and
\* solar units detects.
RunKeys ==
  UNION {KeysOf(DetectAll(readings[u], u, Capacity[u], WindowDays, DayOf(now))) :
           u \in {v \in SolarUnitIds : solarUnits[v] = "ACTIVE"}}

\* The store after a run that made up for the caught error of the run before
\* it: the earlier documents are kept as they were, and there is exactly one
\* document for each key a single error-free run would have stored.
MadeUp ==
  /\ Len(anomalies) >= Len(lastRun.store)
  /\ SubSeq(anomalies, 1, Len(lastRun.store)) = lastRun.store
  /\ Cardinality(KeysOf(anomalies)) = Len(anomalies)
  /\ KeysOf(anomalies) = RunKeys

\* C30: when a run's persistence for a solar unit fails partway, the
\* documents already inserted stay, and a later error-free run over the
\* unchanged readings leaves exactly one document per finding key, the set a
\* single uninterrupted run would have stored.
C30_LaterRunMakesUp ==
  \A j \in Slots :
    (/\ job[j].pc = "return"
     /\ succ[j]
     /\ ~lastRun.clean
     /\ job[j].errs = {}) => MadeUp

\* C30 with both runs on one calendar day.
C30_LaterRunSameDayMakesUp ==
  \A j \in Slots :
    (/\ job[j].pc = "return"
     /\ succ[j]
     /\ ~lastRun.clean
     /\ job[j].errs = {}
     /\ lastRun.day = job[j].day0
     /\ DayOf(now) = job[j].day0) => MadeUp

C30_Witness ==
  \E j \in Slots :
    /\ job[j].pc = "return"
    /\ succ[j]
    /\ ~lastRun.clean
    /\ job[j].errs = {}
    /\ lastRun.day = job[j].day0
    /\ DayOf(now) = job[j].day0
    /\ \E a, b \in RunKeys :
         /\ a[1] = b[1]
         /\ a \in KeysOf(lastRun.store)
         /\ b \notin KeysOf(lastRun.store)
    /\ MadeUp

====
